---- MODULE Spec2Model ----
(***************************************************************************)
(* Model of the two executable scripts of the Moret plugin repository:     *)
(*   validate_plugin.py  - main() and its validate_* helpers               *)
(*   tests/test_plugin.py - main() and the five test functions             *)
(* Both scripts only read the files of the plugin checkout.  The file      *)
(* state `fs` is chosen in Init and never changes; it is described as seen *)
(* from the working directory in which the checks run.                     *)
(*                                                                         *)
(* A Python call is modelled by an operator whose value is the string      *)
(* "True", "False" or "None" when the call returns, and the name of the    *)
(* exception class when the call raises.                                   *)
(***************************************************************************)
EXTENDS FiniteSets, Integers, Sequences, TLC

VARIABLES script, fs, pc, all_valid, returned, exc, test_i, failed, ran, outcome

vars == <<script, fs, pc, all_valid, returned, exc, test_i, failed, ran, outcome>>

(***************************************************************************)
(* File states                                                             *)
(***************************************************************************)

\* keys required of .fz/models/Moret.json
required_keys_model == {"id", "varprefix", "delim", "commentline", "output"}

\* keys required of the calculator alias JSON
required_keys_calc == {"uri", "models"}

\* the directories main() of validate_plugin.py looks for
dirs == {".fz", ".fz/models", ".fz/calculators"}

\* the sample files main() of validate_plugin.py looks for
sample_files == {"godiva.m5", "example_usage.py", "README.md", ".gitignore"}

\* A path is "missing" (os.path.exists is False), "unreadable" (it exists
\* but open()/read() raises: a directory, no read permission, bad encoding)
\* or a readable "file".
NoFile(st) == [status |-> st, json |-> "invalid", keys |-> {}, shape |-> "object"]

\* A readable file whose text is not JSON ("invalid"), or is a JSON number
\* or a JSON array (of values that are none of the required keys).
PlainFile(j) == [status |-> "file", json |-> j, keys |-> {}, shape |-> "object"]

\* A readable file holding a JSON object with the given top-level keys;
\* `shape` is the value stored under the key `k` when that key is present.
ObjectFile(ks, k, sh) ==
    [status |-> "file", json |-> "object", keys |-> ks,
     shape |-> IF k \in ks THEN sh ELSE "object"]

\* value of model['output']: non-empty object, empty object, non-empty
\* array, number
OutputShapes == {"object", "empty", "array", "number"}

\* value of calc['models']: an object, or anything without .keys()
ModelsShapes == {"object", "array"}

ModelFiles ==
    {NoFile(st) : st \in {"missing", "unreadable"}}
    \cup {PlainFile(j) : j \in {"invalid", "number", "array"}}
    \cup {ObjectFile(ks, "output", sh) :
             ks \in SUBSET required_keys_model, sh \in OutputShapes}

CalcFiles ==
    {NoFile(st) : st \in {"missing", "unreadable"}}
    \cup {PlainFile(j) : j \in {"invalid", "number", "array"}}
    \cup {ObjectFile(ks, "models", sh) :
             ks \in SUBSET required_keys_calc, sh \in ModelsShapes}

\* .fz/calculators/Moret.sh: os.access(X_OK) and whether line 1 starts "#!/"
ScriptFiles ==
    {[status |-> "missing", executable |-> FALSE, shebang |-> FALSE]}
    \cup {[status |-> "unreadable", executable |-> x, shebang |-> FALSE] :
             x \in BOOLEAN}
    \cup {[status |-> "file", executable |-> x, shebang |-> s] :
             x \in BOOLEAN, s \in BOOLEAN}

\* examples/Moret/godiva.m5: len(content) > 0, 'MORET_BEGIN' in content,
\* '${' in content
ExampleFiles ==
    {[status |-> st, nonempty |-> FALSE, begin |-> FALSE, dollar |-> FALSE] :
        st \in {"missing", "unreadable"}}
    \cup {[status |-> "file", nonempty |-> FALSE, begin |-> FALSE,
           dollar |-> FALSE]}
    \cup {[status |-> "file", nonempty |-> TRUE, begin |-> b, dollar |-> d] :
             b \in BOOLEAN, d \in BOOLEAN}

\* The directories that must exist for the given files to exist.
DirsNeeded(model, script_file, alias, lower) ==
    (IF model.status # "missing" THEN {".fz", ".fz/models"} ELSE {})
    \cup (IF \/ script_file.status # "missing"
             \/ alias.status # "missing"
             \/ lower.status # "missing"
          THEN {".fz", ".fz/calculators"} ELSE {})

\* Sets of directories closed under "the parent exists".
DirSets == {D \in SUBSET dirs : D \cap {".fz/models", ".fz/calculators"} # {}
                                   => ".fz" \in D}

\* The files as the plugin ships them.
ShippedJson(ks) == ObjectFile(ks, "output", "object")
ShippedExample ==
    [status |-> "file", nonempty |-> TRUE, begin |-> TRUE, dollar |-> TRUE]

\* The file state as a record.
FileState(D, m, s, a, l, sm, e) ==
    [dirs |-> D, model |-> m, script |-> s, alias |-> a, lower |-> l,
     samples |-> sm, example |-> e]

WellFormed(f) == DirsNeeded(f.model, f.script, f.alias, f.lower) \subseteq f.dirs

\* File states enumerated for a run of validate_plugin.py: everything that
\* script inspects varies; the files only test_plugin.py reads are as shipped.
ValidateInput(f) ==
    \E D \in DirSets, m \in ModelFiles, s \in ScriptFiles, a \in CalcFiles,
       sm \in SUBSET sample_files :
        /\ f = FileState(D, m, s, a, ShippedJson(required_keys_calc), sm,
                         ShippedExample)
        /\ WellFormed(f)

\* File states enumerated for a run of tests/test_plugin.py: everything that
\* script inspects varies; the rest is as shipped.
TestInput(f) ==
    \E m \in ModelFiles, s \in ScriptFiles, l \in CalcFiles,
       e \in ExampleFiles :
        /\ f = FileState(dirs, m, s, ShippedJson(required_keys_calc), l,
                         sample_files, e)
        /\ WellFormed(f)

(***************************************************************************)
(* validate_plugin.py                                                      *)
(***************************************************************************)

IsRaise(r) == r \notin {"True", "False", "None"}

validate_file_exists(f) == IF f.status # "missing" THEN "True" ELSE "False"

validate_json_file(f) ==
    IF validate_file_exists(f) = "False" THEN "False"
    ELSE IF f.status = "unreadable" THEN "OSError"
    ELSE IF f.json = "invalid" THEN "False"
    ELSE IF f.json = "number" THEN "TypeError"
    ELSE "True"

validate_shell_script(f) ==
    IF validate_file_exists(f) = "False" THEN "False"
    ELSE IF f.status = "unreadable" THEN "OSError"
    ELSE "True"

validate_model_json(f) ==
    IF f.status = "missing" THEN "FileNotFoundError"
    ELSE IF f.status = "unreadable" THEN "OSError"
    ELSE IF f.json = "invalid" THEN "JSONDecodeError"
    ELSE IF f.json = "number" THEN "TypeError"
    ELSE IF "output" \in f.keys /\ f.shape = "number" THEN "TypeError"
    ELSE "None"

validate_calculator_json(f) ==
    IF f.status = "missing" THEN "FileNotFoundError"
    ELSE IF f.status = "unreadable" THEN "OSError"
    ELSE IF f.json = "invalid" THEN "JSONDecodeError"
    ELSE IF f.json = "number" THEN "TypeError"
    ELSE IF "models" \in f.keys /\ f.shape # "object" THEN "AttributeError"
    ELSE "None"

\* an exception propagates out of main()
Raise(e) ==
    /\ exc' = e
    /\ pc' = "done"
    /\ UNCHANGED <<script, fs, all_valid, returned, test_i, failed, ran, outcome>>

\* all_valid &= (r1 and r2 ...), then on to the next section
Continue(ok, next) ==
    /\ all_valid' = (all_valid /\ ok)
    /\ pc' = next
    /\ UNCHANGED <<script, fs, returned, exc, test_i, failed, ran, outcome>>

\* 1. Checking Directory Structure
CheckDirectories ==
    /\ script = "validate_plugin" /\ pc = "start"
    /\ Continue(\A d \in dirs : d \in fs.dirs, "model_files")

\* 2. Checking Model Files
CheckModelFiles ==
    /\ script = "validate_plugin" /\ pc = "model_files"
    /\ LET r == validate_json_file(fs.model)
       IN IF IsRaise(r) THEN Raise(r)
          ELSE Continue(r = "True", "calculator_files")

\* 3. Checking Calculator Files
CheckCalculatorFiles ==
    /\ script = "validate_plugin" /\ pc = "calculator_files"
    /\ LET r1 == validate_shell_script(fs.script)
           r2 == validate_json_file(fs.alias)
       IN IF IsRaise(r1) THEN Raise(r1)
          ELSE IF IsRaise(r2) THEN Raise(r2)
          ELSE Continue(r1 = "True" /\ r2 = "True", "sample_files")

\* 4. Checking Sample Files
CheckSampleFiles ==
    /\ script = "validate_plugin" /\ pc = "sample_files"
    /\ Continue(\A s \in sample_files : s \in fs.samples, "detailed")

\* 5. Detailed Validation
DetailedValidation ==
    /\ script = "validate_plugin" /\ pc = "detailed"
    /\ LET r1 == validate_model_json(fs.model)
           r2 == validate_calculator_json(fs.alias)
       IN IF IsRaise(r1) THEN Raise(r1)
          ELSE IF IsRaise(r2) THEN Raise(r2)
          ELSE Continue(TRUE, "summary")

\* Summary
ValidateSummary ==
    /\ script = "validate_plugin" /\ pc = "summary"
    /\ returned' = (IF all_valid THEN 0 ELSE 1)
    /\ pc' = "done"
    /\ UNCHANGED <<script, fs, all_valid, exc, test_i, failed, ran, outcome>>

(***************************************************************************)
(* tests/test_plugin.py                                                    *)
(***************************************************************************)

test_model_files(f) ==
    IF f.status = "missing" THEN "AssertionError"
    ELSE IF f.status = "unreadable" THEN "OSError"
    ELSE IF f.json = "invalid" THEN "JSONDecodeError"
    ELSE IF f.json = "number" THEN "TypeError"
    ELSE IF ~(required_keys_model \subseteq f.keys) THEN "AssertionError"
    ELSE IF f.shape = "number" THEN "TypeError"
    ELSE IF f.shape = "empty" THEN "AssertionError"
    ELSE IF f.shape = "array" THEN "AttributeError"
    ELSE "None"

test_calculator_files(f) ==
    IF f.status = "missing" THEN "AssertionError"
    ELSE IF f.status = "unreadable" THEN "OSError"
    ELSE IF f.json = "invalid" THEN "JSONDecodeError"
    ELSE IF f.json = "number" THEN "TypeError"
    ELSE IF "uri" \notin f.keys THEN "AssertionError"
    ELSE IF "models" \notin f.keys THEN "AssertionError"
    ELSE IF f.shape # "object" THEN "AttributeError"
    ELSE "None"

test_calculator_scripts(f) ==
    IF f.status = "missing" THEN "AssertionError"
    ELSE IF ~f.executable THEN "AssertionError"
    ELSE IF f.status = "unreadable" THEN "OSError"
    ELSE IF ~f.shebang THEN "AssertionError"
    ELSE "None"

test_example_files(e) ==
    IF e.status = "missing" THEN "AssertionError"
    ELSE IF e.status = "unreadable" THEN "OSError"
    ELSE IF ~e.nonempty THEN "AssertionError"
    ELSE IF ~e.begin THEN "AssertionError"
    ELSE IF ~e.dollar THEN "AssertionError"
    ELSE "None"

\* variables test_with_fz expects fz.fzi to report
expected_vars == {"radius", "u5"}

\* classes of Exception the fz package is taken to raise
FzRaises == {"ImportError", "AssertionError", "RuntimeError"}

\* What the fz package does when test_with_fz uses it: the step at which it
\* raises (if any), the variables fz.fzi reports, and what fz.fzc leaves in
\* the temporary directory.
FzRun(at, e, V, sub, comp, r, u) ==
    [raises_at |-> at, raises |-> e, variables |-> V, subdirs |-> sub,
     compiled |-> comp, radius_text |-> r, u5_text |-> u]

FzBehaviours ==
    {FzRun("import", "ImportError", {}, FALSE, "missing", FALSE, FALSE)}
    \cup {FzRun("fzi", e, {}, FALSE, "missing", FALSE, FALSE) : e \in FzRaises}
    \cup {FzRun("fzc", e, V, FALSE, "missing", FALSE, FALSE) :
             e \in FzRaises, V \in SUBSET expected_vars}
    \cup {FzRun("none", "None", V, FALSE, "missing", FALSE, FALSE) :
             V \in SUBSET expected_vars}
    \cup {FzRun("none", "None", expected_vars, TRUE, c, FALSE, FALSE) :
             c \in {"missing", "unreadable"}}
    \cup {FzRun("none", "None", expected_vars, TRUE, "file", r, u) :
             r \in BOOLEAN, u \in BOOLEAN}

\* only test_with_fz touches the fz package
FzUsedBy(name) ==
    IF name = "test_with_fz" THEN FzBehaviours
    ELSE {FzRun("import", "ImportError", {}, FALSE, "missing", FALSE, FALSE)}

\* the body of the try block of test_with_fz
fz_integration(z) ==
    IF z.raises_at = "import" THEN z.raises
    ELSE IF z.raises_at = "fzi" THEN z.raises
    ELSE IF ~(expected_vars \subseteq z.variables) THEN "AssertionError"
    ELSE IF z.raises_at = "fzc" THEN z.raises
    ELSE IF ~z.subdirs THEN "AssertionError"
    ELSE IF z.compiled = "missing" THEN "AssertionError"
    ELSE IF z.compiled = "unreadable" THEN "OSError"
    ELSE IF ~z.radius_text THEN "AssertionError"
    ELSE IF ~z.u5_text THEN "AssertionError"
    ELSE "None"

\* except ImportError: skip; except Exception: print and re-raise
test_with_fz(z) ==
    LET r == fz_integration(z)
    IN IF r = "ImportError" THEN "None" ELSE r

tests == <<"test_model_files", "test_calculator_files",
           "test_calculator_scripts", "test_example_files", "test_with_fz">>

\* test(): call the named test function
CallTest(name, f, z) ==
    CASE name = "test_model_files" -> test_model_files(f.model)
      [] name = "test_calculator_files" -> test_calculator_files(f.lower)
      [] name = "test_calculator_scripts" -> test_calculator_scripts(f.script)
      [] name = "test_example_files" -> test_example_files(f.example)
      [] name = "test_with_fz" -> test_with_fz(z)

\* the classes the tests raise, all derived from Exception
ExceptionClasses ==
    {"AssertionError", "OSError", "JSONDecodeError", "TypeError",
     "AttributeError", "ImportError", "RuntimeError"}

\* except AssertionError / except Exception: is the exception handled?
Caught(r) == r = "AssertionError" \/ r \in ExceptionClasses

\* the value of `failed` after the try/except around one call
Catch_Overwrites(r, f) == r # "None"

Catch(r, f) ==
    IF r = "AssertionError" THEN TRUE
    ELSE IF r # "None" THEN TRUE
    ELSE f

\* failed = False; tests = [...]
TestBegin ==
    /\ script = "test_plugin" /\ pc = "start"
    /\ failed' = FALSE
    /\ test_i' = 1
    /\ pc' = "loop"
    /\ UNCHANGED <<script, fs, all_valid, returned, exc, ran, outcome>>

\* one iteration of `for test in tests`
RunTest ==
    /\ script = "test_plugin" /\ pc = "loop"
    /\ test_i <= Len(tests)
    /\ \E z \in FzUsedBy(tests[test_i]) :
          LET r == CallTest(tests[test_i], fs, z)
          IN IF r # "None" /\ ~Caught(r) THEN Raise(r)
             ELSE /\ failed' = Catch(r, failed)
                  /\ outcome' = Append(outcome, r)
                  /\ ran' = Append(ran, tests[test_i])
                  /\ test_i' = test_i + 1
                  /\ UNCHANGED <<script, fs, pc, all_valid, returned, exc>>

\* the loop is exhausted: print the summary and return
TestSummary ==
    /\ script = "test_plugin" /\ pc = "loop"
    /\ test_i > Len(tests)
    /\ returned' = (IF failed THEN 1 ELSE 0)
    /\ pc' = "done"
    /\ UNCHANGED <<script, fs, all_valid, exc, test_i, failed, ran, outcome>>

(***************************************************************************)
(* Specification                                                           *)
(***************************************************************************)

Init ==
    /\ script \in {"validate_plugin", "test_plugin"}
    /\ IF script = "validate_plugin" THEN ValidateInput(fs) ELSE TestInput(fs)
    /\ pc = "start"
    /\ all_valid = TRUE
    /\ returned = -1
    /\ exc = "none"
    /\ test_i = 0
    /\ failed = FALSE
    /\ ran = <<>>
    /\ outcome = <<>>

Next ==
    \/ CheckDirectories
    \/ CheckModelFiles
    \/ CheckCalculatorFiles
    \/ CheckSampleFiles
    \/ DetailedValidation
    \/ ValidateSummary
    \/ TestBegin
    \/ RunTest
    \/ TestSummary

Spec == Init /\ [][Next]_vars

TypeOK ==
    /\ script \in {"validate_plugin", "test_plugin"}
    /\ pc \in {"start", "model_files", "calculator_files", "sample_files",
               "detailed", "summary", "loop", "done"}
    /\ all_valid \in BOOLEAN
    /\ returned \in {-1, 0, 1}
    /\ failed \in BOOLEAN
    /\ test_i \in 0..(Len(tests) + 1)
    /\ Len(ran) = Len(outcome)

(***************************************************************************)
(* Properties                                                              *)
(***************************************************************************)

\* what "the plugin structure is complete and valid" means
StructureComplete(f) ==
    /\ dirs \subseteq f.dirs
    /\ f.model.status = "file" /\ f.model.json = "object"
    /\ required_keys_model \subseteq f.model.keys
    /\ f.alias.status = "file" /\ f.alias.json = "object"
    /\ required_keys_calc \subseteq f.alias.keys
    /\ f.script.status = "file" /\ f.script.executable /\ f.script.shebang
    /\ sample_files \subseteq f.samples

\* a JSON file that is missing or does not parse
MissingOrInvalid(f) ==
    f.status = "missing" \/ (f.status = "file" /\ f.json = "invalid")

\* C8: validate_plugin.main returns 0 only when the plugin structure is
\* complete and valid (directories, model JSON with its five keys, calculator
\* JSON with uri and models, executable script with a shebang, sample files).
C8_ReturnsZeroOnlyWhenComplete ==
    (script = "validate_plugin" /\ returned = 0) => StructureComplete(fs)

\* C9: test_plugin.main runs the five tests in their listed order, goes on
\* after a failing test, lets no exception of a test escape, and returns 1
\* exactly when some test raised, 0 otherwise.
C9_TestMainReportsFailures ==
    script = "test_plugin" =>
        /\ exc = "none"
        /\ ran = SubSeq(tests, 1, Len(ran))
        /\ pc = "done" =>
              /\ ran = tests
              /\ returned = (IF \E i \in 1..Len(tests) : outcome[i] # "None"
                             THEN 1 ELSE 0)

\* C9 happens: the first and third tests raise, the others still run and
\* pass, and main returns 1.
C9_Witness ==
    /\ script = "test_plugin" /\ pc = "done"
    /\ outcome = <<"AssertionError", "None", "OSError", "None", "None">>
    /\ returned = 1

\* C10: validate_plugin.main never raises and ends by returning 0 or 1; when
\* the model JSON or the calculator JSON is missing or is not valid JSON it
\* returns 1.
C10_ValidateMainNeverRaises ==
    script = "validate_plugin" =>
        /\ exc = "none"
        /\ pc = "done" => returned \in {0, 1}
        /\ (pc = "done" /\ (MissingOrInvalid(fs.model)
                            \/ MissingOrInvalid(fs.alias))) => returned = 1

====
